---- MODULE Spec2Model ----
(***************************************************************************)
(* PhilReviews review browser (static/app.js, first variant): the          *)
(* filter -> sort -> paginate -> render pipeline, the faceted selections   *)
(* and the URL fragment codec, as a state machine with one action per      *)
(* event handler.                                                          *)
(*                                                                         *)
(* A JavaScript string is a sequence of one-character strings, so that     *)
(* trim, toLowerCase, includes, split, join, parseInt and the URL          *)
(* encoding are computed character by character.  null, undefined and NaN  *)
(* are the empty sequence where a number is expected; a number n is <<n>>. *)
(***************************************************************************)
EXTENDS Integers, Sequences, FiniteSets, TLC

VARIABLES allReviews, filtered, allJournals, selectedJournals, allSubfields,
          selectedSubfields, state, els, timer, hash, totalPages, lastOp,
          journalBtn, subfieldBtn, filterIndicator

vars == <<allReviews, filtered, allJournals, selectedJournals, allSubfields,
          selectedSubfields, state, els, timer, hash, totalPages, lastOp,
          journalBtn, subfieldBtn, filterIndicator>>

(* ------------------------------ bounds --------------------------------- *)

\* at most this many view dimensions are away from their defaults at once
MaxActive == 1

\* the datasets of the pagination runs have up to this many entries, and one
\* has ScenarioEntries entries (two full pages of the default size)
MaxEntries == 16
ScenarioEntries == 50

(* ------------------------- string literals ----------------------------- *)

K_q == <<"q">>
K_title == <<"t", "i", "t", "l", "e">>
K_author == <<"a", "u", "t", "h", "o", "r">>
K_reviewer == <<"r", "e", "v", "i", "e", "w", "e", "r">>
K_subfield == <<"s", "u", "b", "f", "i", "e", "l", "d">>
K_journals == <<"j", "o", "u", "r", "n", "a", "l", "s">>
K_year == <<"y", "e", "a", "r">>
K_access == <<"a", "c", "c", "e", "s", "s">>
K_type == <<"t", "y", "p", "e">>
K_sort == <<"s", "o", "r", "t">>
K_page == <<"p", "a", "g", "e">>
S_date == <<"d", "a", "t", "e">>
S_desc == <<"d", "e", "s", "c">>
S_asc == <<"a", "s", "c">>
S_journal == <<"j", "o", "u", "r", "n", "a", "l">>
S_review == <<"r", "e", "v", "i", "e", "w">>
S_symposium == <<"s", "y", "m", "p", "o", "s", "i", "u", "m">>
S_open == <<"o", "p", "e", "n">>
S_restricted == <<"r", "e", "s", "t", "r", "i", "c", "t", "e", "d">>
S_title == <<"t", "i", "t", "l", "e">>
S_author == <<"a", "u", "t", "h", "o", "r">>
S_reviewer == <<"r", "e", "v", "i", "e", "w", "e", "r">>
S_the == <<"t", "h", "e", " ">>
S_ethics == <<"e", "t", "h", "i", "c", "s">>
S_legal == <<"l", "e", "g", "a", "l">>
S_ethicsName == <<"E", "t", "h", "i", "c", "s", " ", "&", " ", "M", "o", "r", "a", "l", " ", "P", "h", "i", "l", "o", "s", "o", "p", "h", "y">>
S_legalName == <<"P", "h", "i", "l", "o", "s", "o", "p", "h", "y", " ", "o", "f", " ", "L", "a", "w">>

\* the dataset and the inputs of the model
D_Mind == <<"M", "i", "n", "d">>
D_PE == <<"P", ",", " ", "E">>
D_Ratio == <<"R", "a", "t", "i", "o">>
D_DeCive == <<"D", "e", " ", "C", "i", "v", "e">>
D_Ethics == <<"E", "t", "h", "i", "c", "s">>
D_Law == <<"L", "a", "w">>
D_Hobbes == <<"H", "o", "b", "b", "e", "s">>
D_Kant == <<"K", "a", "n", "t">>
D_Hart == <<"H", "a", "r", "t">>
D_Ann == <<"A", "n", "n">>
D_Bo == <<"B", "o">>
D_Cy == <<"C", "y">>
D_2009 == <<"2", "0", "0", "9", "-", "0", "1", "-", "0", "1">>
D_2010 == <<"2", "0", "1", "0", "-", "0", "3", "-", "0", "1">>
D_2012 == <<"2", "0", "1", "2", "-", "0", "5", "-", "0", "1">>
D_Open == <<"O", "p", "e", "n">>
D_Restricted == <<"R", "e", "s", "t", "r", "i", "c", "t", "e", "d">>
I_hobbes == <<"h", "o", "b", "b", "e", "s">>
I_blank == <<" ">>
I_padCive == <<" ", "c", "i", "v", "e", " ">>
I_kant == <<"K", "a", "n", "t">>
I_ann == <<"a", "n", "n">>
I_0 == <<"0">>
I_2010 == <<"2", "0", "1", "0">>
I_2011 == <<"2", "0", "1", "1">>
I_ampPage == <<"&", "p", "a", "g", "e", "=", "2">>

(* --------------------- JavaScript string primitives -------------------- *)

Min(a, b) == IF a < b THEN a ELSE b
Max(a, b) == IF a > b THEN a ELSE b

UpperChars == <<"A","B","C","D","E","F","G","H","I","J","K","L","M",
                "N","O","P","Q","R","S","T","U","V","W","X","Y","Z">>
LowerChars == <<"a","b","c","d","e","f","g","h","i","j","k","l","m",
                "n","o","p","q","r","s","t","u","v","w","x","y","z">>
DigitChars == <<"0","1","2","3","4","5","6","7","8","9">>

\* collation order of the characters the model uses (after case folding)
Collation == <<" ", ",", "-", "&">> \o DigitChars \o LowerChars

IndexOf(seq, c) == IF \E i \in 1..Len(seq) : seq[i] = c
                   THEN CHOOSE i \in 1..Len(seq) : seq[i] = c
                   ELSE 0

\* the characters of the model's strings
OtherChars == <<" ", ",", "-", "&", "=", "+", "%", "*", ".", "_">>
Alphabet == {UpperChars[i] : i \in 1..26} \cup {LowerChars[i] : i \in 1..26}
            \cup {DigitChars[i] : i \in 1..10} \cup {OtherChars[i] : i \in 1..Len(OtherChars)}

\* String.prototype.toLowerCase (SubSeq of the whole makes the result a
\* tuple, whose characters are computed once)
LowerTable == [c \in Alphabet |-> IF IndexOf(UpperChars, c) > 0 THEN LowerChars[IndexOf(UpperChars, c)] ELSE c]
LowerChar(c) == LowerTable[c]
ToLower(s) == SubSeq([i \in 1..Len(s) |-> LowerChar(s[i])], 1, Len(s))

\* String.prototype.trim
Trim(s) ==
  LET keep == {i \in 1..Len(s) : s[i] # " "}
  IN IF keep = {} THEN <<>>
     ELSE SubSeq(s, CHOOSE i \in keep : \A j \in keep : i <= j,
                    CHOOSE i \in keep : \A j \in keep : i >= j)

\* String.prototype.includes
Includes(s, t) ==
  t = <<>> \/ \E i \in 1..(Len(s) - Len(t) + 1) : s[i] = t[1] /\ SubSeq(s, i, i + Len(t) - 1) = t

\* String.prototype.substring(0, n)
Substring0(s, n) == SubSeq(s, 1, Min(n, Len(s)))

\* String.prototype.split on a one-character separator
RECURSIVE Split(_, _)
Split(s, c) ==
  IF IndexOf(s, c) = 0 THEN <<s>>
  ELSE LET k == CHOOSE i \in 1..Len(s) : s[i] = c /\ \A j \in 1..(i - 1) : s[j] # c
       IN <<SubSeq(s, 1, k - 1)>> \o Split(SubSeq(s, k + 1, Len(s)), c)

\* Array.prototype.join with a separator string
RECURSIVE Join(_, _)
Join(parts, sep) ==
  IF Len(parts) = 0 THEN <<>>
  ELSE IF Len(parts) = 1 THEN parts[1]
  ELSE parts[1] \o sep \o Join(Tail(parts), sep)

\* parseInt(s, 10): leading blanks, an optional sign, then the longest run
\* of digits; NaN (the empty sequence) when there is no digit
DigitTable == [c \in Alphabet |-> IndexOf(DigitChars, c) - 1]
IsDigit(c) == DigitTable[c] >= 0

RECURSIVE DigitsValue(_, _)
DigitsValue(s, acc) ==
  IF Len(s) = 0 \/ ~IsDigit(s[1]) THEN acc
  ELSE DigitsValue(Tail(s), 10 * acc + DigitTable[s[1]])

RECURSIVE SkipBlanks(_)
SkipBlanks(s) == IF Len(s) > 0 /\ s[1] = " " THEN SkipBlanks(Tail(s)) ELSE s

ParseInt(str) ==
  LET s    == SkipBlanks(str)
      neg  == Len(s) > 0 /\ s[1] = "-"
      body == IF Len(s) > 0 /\ s[1] \in {"-", "+"} THEN Tail(s) ELSE s
  IN IF Len(body) = 0 \/ ~IsDigit(body[1]) THEN <<>>
     ELSE <<(IF neg THEN -1 ELSE 1) * DigitsValue(body, 0)>>

\* Number to string conversion (string concatenation of a number)
RECURSIVE NatToStr(_)
NatToStr(n) == IF n < 10 THEN <<DigitChars[n + 1]>>
               ELSE NatToStr(n \div 10) \o <<DigitChars[(n % 10) + 1]>>
NumToStr(n) == IF n < 0 THEN <<"-">> \o NatToStr(-n) ELSE NatToStr(n)

\* JavaScript truthiness of a number-or-null value: null, NaN and 0 are falsy
Truthy(v) == v # <<>> /\ v[1] # 0

\* String.prototype.localeCompare on case-folded strings: -1, 0 or 1
RankTable == [c \in Alphabet |-> IndexOf(Collation, c)]
Rank(c) == RankTable[c]
LocaleCompare(a, b) ==
  IF a = b THEN 0
  ELSE LET n == Min(Len(a), Len(b))
           d == {i \in 1..n : a[i] # b[i]}
       IN IF d = {} THEN (IF Len(a) < Len(b) THEN -1 ELSE 1)
          ELSE LET k == CHOOSE i \in d : \A j \in d : i <= j
               IN IF Rank(a[k]) < Rank(b[k]) THEN -1 ELSE 1

\* Array.prototype.slice(from, to), negative indices counting from the end
Slice(seq, from, to) ==
  LET n == Len(seq)
      f == IF from < 0 THEN Max(n + from, 0) ELSE Min(from, n)
      t == IF to < 0 THEN Max(n + to, 0) ELSE Min(to, n)
  IN SubSeq(seq, f + 1, t)

\* the Set built from an array: first occurrences, in insertion order
NewSet(arr) ==
  LET firsts == {i \in 1..Len(arr) : \A j \in 1..(i - 1) : arr[j] # arr[i]}
      nth(k) == CHOOSE i \in firsts : Cardinality({j \in firsts : j < i}) = k - 1
  IN SubSeq([k \in 1..Cardinality(firsts) |-> arr[nth(k)]], 1, Cardinality(firsts))

Has(set, x) == IndexOf(set, x) > 0
SetAdd(set, x) == IF Has(set, x) THEN set ELSE Append(set, x)
SetDelete(set, x) == SelectSeq(set, LAMBDA y : y # x)

(* ------------------- URLSearchParams (form-urlencoded) ----------------- *)

\* characters the serializer leaves as they are
Unreserved == {"*", "-", ".", "_"}
IsAlnum(c) == IndexOf(UpperChars, c) > 0 \/ IndexOf(LowerChars, c) > 0 \/ IndexOf(DigitChars, c) > 0

\* percent escapes of the other characters of the model's alphabet
PctChars == <<",", "&", "=", "+", "%">>
PctCodes == << <<"%","2","C">>, <<"%","2","6">>, <<"%","3","D">>, <<"%","2","B">>, <<"%","2","5">> >>

EncodeTable ==
  [c \in Alphabet |-> IF IsAlnum(c) \/ c \in Unreserved THEN <<c>>
                      ELSE IF c = " " THEN <<"+">>
                      ELSE PctCodes[IndexOf(PctChars, c)]]
EncodeChar(c) == EncodeTable[c]

RECURSIVE Encode(_)
Encode(s) == IF Len(s) = 0 THEN <<>> ELSE EncodeChar(s[1]) \o Encode(Tail(s))

RECURSIVE Decode(_)
Decode(s) ==
  IF Len(s) = 0 THEN <<>>
  ELSE IF s[1] = "+" THEN <<" ">> \o Decode(Tail(s))
  ELSE IF s[1] = "%" /\ Len(s) >= 3 /\ IndexOf(PctCodes, SubSeq(s, 1, 3)) > 0
       THEN <<PctChars[IndexOf(PctCodes, SubSeq(s, 1, 3))]>> \o Decode(SubSeq(s, 4, Len(s)))
  ELSE <<s[1]>> \o Decode(Tail(s))

\* URLSearchParams.prototype.toString of a list of <<name, value>> pairs
ParamsToString(params) ==
  Join([i \in 1..Len(params) |-> Encode(params[i][1]) \o <<"=">> \o Encode(params[i][2])], <<"&">>)

\* new URLSearchParams(string): the list of decoded <<name, value>> pairs
ParsePair(seg) ==
  LET k == IndexOf(seg, "=")
  IN IF k = 0 THEN <<Decode(seg), <<>> >>
     ELSE <<Decode(SubSeq(seg, 1, k - 1)), Decode(SubSeq(seg, k + 1, Len(seg)))>>

URLSearchParams(str) ==
  LET segs == SelectSeq(Split(str, "&"), LAMBDA seg : Len(seg) > 0)
  IN SubSeq([i \in 1..Len(segs) |-> ParsePair(segs[i])], 1, Len(segs))

ParamsHas(params, name) == \E i \in 1..Len(params) : params[i][1] = name
ParamsGet(params, name) ==
  params[CHOOSE i \in 1..Len(params) : params[i][1] = name /\ \A j \in 1..(i - 1) : params[j][1] # name][2]

(* ------------------------- dataset and markup -------------------------- *)

\* ReviewEntry records of the embedded JSON; id stands for object identity,
\* a missing optional field (type, subfield, subfield2) is the empty string
Entry1 == [id |-> 1, title |-> D_DeCive, author |-> D_Hobbes, reviewer |-> D_Ann,
           journal |-> D_Mind, date |-> D_2009, access |-> D_Open, type |-> <<>>,
           subfield |-> S_legal, subfield2 |-> <<>>]
Entry2 == [id |-> 2, title |-> D_Ethics, author |-> D_Kant, reviewer |-> D_Bo,
           journal |-> D_PE, date |-> D_2010, access |-> D_Restricted, type |-> S_symposium,
           subfield |-> S_ethics, subfield2 |-> S_legal]
Entry3 == [id |-> 3, title |-> D_Law, author |-> D_Hart, reviewer |-> D_Cy,
           journal |-> D_Mind, date |-> D_2012, access |-> D_Open, type |-> S_review,
           subfield |-> <<>>, subfield2 |-> <<>>]

Dataset == <<Entry1, Entry2, Entry3>>

\* a dataset of n entries, dated 2012 and 2009 in turn
Entries(n) ==
  [i \in 1..n |-> [Entry3 EXCEPT !.id = i, !.date = IF i % 2 = 0 THEN D_2012 ELSE D_2009]]

\* values of the checkboxes of #subfield-dropdown
SubfieldCheckboxes == <<S_ethics, S_legal>>

\* data-journal attributes of the .source-card buttons (static markup)
SourceCards == {D_Mind, D_PE, D_Ratio}

\* data-sort attributes of the sortable column headers
SortHeaders == {S_title, S_author, S_reviewer, S_journal, S_date}

\* option values of the #per-page, #filter-access and #filter-type selects
PerPageOptions == {2, 25}
AccessOptions == {<<>>, S_open, S_restricted}
TypeOptions == {<<>>, S_review, S_symposium}

SUBFIELD_NAMES(code) ==
  IF code = S_ethics THEN S_ethicsName
  ELSE IF code = S_legal THEN S_legalName
  ELSE <<>>

\* r[key] || "" for a key given as a string
Field(r, key) ==
  IF key = S_title THEN r.title
  ELSE IF key = S_author THEN r.author
  ELSE IF key = S_reviewer THEN r.reviewer
  ELSE IF key = S_journal THEN r.journal
  ELSE IF key = S_date THEN r.date
  ELSE IF key = K_access THEN r.access
  ELSE IF key = K_type THEN r.type
  ELSE IF key = K_subfield THEN r.subfield
  ELSE <<>>

(* ------------------------- journal list (init) ------------------------- *)

\* sortKey = s => s.replace(/^The /i, '')
JournalSortKey(s) ==
  IF Len(s) >= 4 /\ ToLower(SubSeq(s, 1, 4)) = S_the THEN SubSeq(s, 5, Len(s)) ELSE s

RECURSIVE SortJournals(_)
SortJournals(seq) ==
  IF Len(seq) <= 1 THEN seq
  ELSE LET init == SortJournals(SubSeq(seq, 1, Len(seq) - 1))
           x    == seq[Len(seq)]
           le   == {i \in 1..Len(init) :
                      LocaleCompare(ToLower(JournalSortKey(init[i])), ToLower(JournalSortKey(x))) <= 0}
           k    == IF le = {} THEN 0 ELSE CHOOSE i \in le : \A j \in le : i >= j
       IN SubSeq(init, 1, k) \o <<x>> \o SubSeq(init, k + 1, Len(init))

BuildJournals(reviews) == SortJournals(NewSet([i \in 1..Len(reviews) |-> reviews[i].journal]))

(* ------------------------------ filtering ------------------------------ *)

\* The program state as one record, so that the handlers' calls compose
Machine ==
  [allReviews |-> allReviews, filtered |-> filtered, allJournals |-> allJournals,
   selectedJournals |-> selectedJournals, allSubfields |-> allSubfields,
   selectedSubfields |-> selectedSubfields, state |-> state, els |-> els,
   timer |-> timer, hash |-> hash, totalPages |-> totalPages,
   journalBtn |-> journalBtn, subfieldBtn |-> subfieldBtn,
   filterIndicator |-> filterIndicator]

(* ----------------------------- facet labels ---------------------------- *)

\* journalBtn and subfieldBtn hold the textContent of the two facet buttons;
\* until a handler writes them they show the text of the static markup, the
\* label of a facet with everything selected
S_noJournals == <<"N", "o", " ", "j", "o", "u", "r", "n", "a", "l", "s", " ", "s", "e", "l", "e", "c", "t", "e", "d">>
S_allJournals == <<"A", "l", "l", " ", "J", "o", "u", "r", "n", "a", "l", "s">>
S_noSubfields == <<"N", "o", " ", "s", "u", "b", "f", "i", "e", "l", "d", "s", " ", "s", "e", "l", "e", "c", "t", "e", "d">>
S_allSubfields == <<"A", "l", "l", " ", "S", "u", "b", "f", "i", "e", "l", "d", "s">>
S_plus == <<" ", "+">>
S_more == <<" ", "m", "o", "r", "e">>
S_commaSpace == <<",", " ">>

updateJournalBtnLabel(m) ==
  LET sel == m.selectedJournals
  IN [m EXCEPT !.journalBtn =
        IF Len(sel) = 0 THEN S_noJournals
        ELSE IF Len(sel) = Len(m.allJournals) THEN S_allJournals
        ELSE IF Len(sel) = 1 THEN sel[1]
        ELSE IF Len(sel) <= 2 THEN Join(sel, S_commaSpace)
        ELSE sel[1] \o S_plus \o NumToStr(Len(sel) - 1) \o S_more]

\* SUBFIELD_NAMES[c] || c
SubfieldName(c) == IF SUBFIELD_NAMES(c) # <<>> THEN SUBFIELD_NAMES(c) ELSE c

updateSubfieldBtnLabel(m) ==
  LET sel == m.selectedSubfields
  IN [m EXCEPT !.subfieldBtn =
        IF Len(sel) = 0 THEN S_noSubfields
        ELSE IF Len(sel) = Len(m.allSubfields) THEN S_allSubfields
        ELSE IF Len(sel) = 1 THEN SubfieldName(sel[1])
        ELSE IF Len(sel) = 2 THEN Join([i \in 1..Len(sel) |-> SubfieldName(sel[i])], S_commaSpace)
        ELSE SubfieldName(sel[1]) \o S_plus \o NumToStr(Len(sel) - 1) \o S_more]

\* the locals of applyFilters
FilterG(m) == Trim(ToLower(m.els.globalSearch))
FilterFt(m) == Trim(ToLower(m.els.titleFilter))
FilterFa(m) == Trim(ToLower(m.els.authorFilter))
FilterFr(m) == Trim(ToLower(m.els.reviewerFilter))
FilterFy1(m) == IF m.els.yearFrom # <<>> THEN ParseInt(m.els.yearFrom) ELSE <<>>
FilterFy2(m) == IF m.els.yearTo # <<>> THEN ParseInt(m.els.yearTo) ELSE <<>>
FilterFac(m) == ToLower(m.els.accessFilter)
FilterFtype(m) == m.els.typeFilter
\* variant: an empty selection is taken for "no journal filter"
FilterByJournalNonEmpty(m) ==
  Len(m.selectedJournals) > 0 /\ Len(m.selectedJournals) < Len(m.allJournals)
FilterByJournal(m) == Len(m.selectedJournals) < Len(m.allJournals)
FilterBySubfield(m) == Len(m.selectedSubfields) < Len(m.allSubfields)

Blob(r) ==
  ToLower(r.title \o <<" ">> \o r.author \o <<" ">> \o r.reviewer \o <<" ">> \o r.journal
          \o <<" ">> \o r.date \o <<" ">> \o ToLower(SUBFIELD_NAMES(r.subfield)))

\* one operator per early return of the filter callback
PassGlobal(m, r) == LET g == FilterG(m) IN g # <<>> => Includes(Blob(r), g)
PassTitle(m, r) == LET ft == FilterFt(m) IN ft # <<>> => Includes(ToLower(r.title), ft)
PassAuthor(m, r) == LET fa == FilterFa(m) IN fa # <<>> => Includes(ToLower(r.author), fa)
PassReviewer(m, r) == LET fr == FilterFr(m) IN fr # <<>> => Includes(ToLower(r.reviewer), fr)
\* variant: the entry's journal is compared with one selected value only
PassJournalFirstOnly(m, r) ==
  Len(m.selectedJournals) > 0 /\ m.selectedJournals[1] = r.journal
PassJournal(m, r) == FilterByJournal(m) => Has(m.selectedJournals, r.journal)
PassSubfield(m, r) ==
  FilterBySubfield(m) => (Has(m.selectedSubfields, r.subfield) \/ Has(m.selectedSubfields, r.subfield2))
PassAccess(m, r) == LET fac == FilterFac(m) IN fac # <<>> => ToLower(r.access) = fac
PassType(m, r) ==
  FilterFtype(m) # <<>> => (IF r.type # <<>> THEN r.type ELSE S_review) = FilterFtype(m)
PassYear(m, r) ==
  LET fy1 == FilterFy1(m)
      fy2 == FilterFy2(m)
  IN (Truthy(fy1) \/ Truthy(fy2)) =>
       LET y == ParseInt(Substring0(r.date, 4))
       IN /\ y # <<>>
          /\ Truthy(fy1) => y[1] >= fy1[1]
          /\ Truthy(fy2) => y[1] <= fy2[1]

Passes(m, r) ==
  /\ PassGlobal(m, r) /\ PassTitle(m, r) /\ PassAuthor(m, r) /\ PassReviewer(m, r)
  /\ PassJournal(m, r) /\ PassSubfield(m, r) /\ PassAccess(m, r) /\ PassType(m, r)
  /\ PassYear(m, r)

\* the active array of updateFilterIndicator
S_filterWord == <<" ", "f", "i", "l", "t", "e", "r">>
S_activeWord == <<" ", "a", "c", "t", "i", "v", "e">>
ActiveFilters(m) ==
     (IF Trim(m.els.globalSearch) # <<>> THEN <<"search">> ELSE <<>>)
  \o (IF Trim(m.els.titleFilter) # <<>> THEN <<"title">> ELSE <<>>)
  \o (IF Trim(m.els.authorFilter) # <<>> THEN <<"author">> ELSE <<>>)
  \o (IF Trim(m.els.reviewerFilter) # <<>> THEN <<"reviewer">> ELSE <<>>)
  \o (IF Len(m.selectedSubfields) < Len(m.allSubfields) THEN <<"subfield">> ELSE <<>>)
  \o (IF Len(m.selectedJournals) < Len(m.allJournals) THEN <<"journals">> ELSE <<>>)
  \o (IF m.els.yearFrom # <<>> \/ m.els.yearTo # <<>> THEN <<"year">> ELSE <<>>)
  \o (IF m.els.accessFilter # <<>> THEN <<"access">> ELSE <<>>)
  \o (IF m.els.typeFilter # <<>> THEN <<"type">> ELSE <<>>)

updateFilterIndicator(m) ==
  LET n == Len(ActiveFilters(m))
  IN [m EXCEPT !.filterIndicator =
        IF n > 0
        THEN NumToStr(n) \o S_filterWord \o (IF n > 1 THEN <<"s">> ELSE <<>>) \o S_activeWord
        ELSE <<>>]

applyFilters(m) ==
  updateFilterIndicator(
    [m EXCEPT !.filtered = SelectSeq(m.allReviews, LAMBDA r : Passes(m, r))])

(* ------------------------------- sorting ------------------------------- *)

\* a comparator without the direction's sign
CompareAscending(a, b, key, dir) ==
  LocaleCompare(ToLower(Field(a, key)), ToLower(Field(b, key)))

\* the comparator of applySort
Compare(a, b, key, dir) ==
  dir * LocaleCompare(ToLower(Field(a, key)), ToLower(Field(b, key)))

\* Array.prototype.sort with a comparator is stable: an element comes after
\* those that compare lower and after the equal ones that preceded it
\* (cmp and pos are tuples, so that each comparison is made once)
SortEntries(seq, key, dir) ==
  LET n      == Len(seq)
      row(i) == SubSeq([j \in 1..n |-> IF j < i THEN Compare(seq[j], seq[i], key, dir) ELSE 0], 1, n)
      cmp    == SubSeq([i \in 1..n |-> row(i)], 1, n)
      lower(j, i) == IF j < i THEN cmp[i][j] <= 0 ELSE IF j > i THEN cmp[j][i] > 0 ELSE FALSE
      pos    == SubSeq([i \in 1..n |-> Cardinality({j \in 1..n : lower(j, i)}) + 1], 1, n)
  IN [k \in 1..n |-> seq[CHOOSE i \in 1..n : pos[i] = k]]

\* variant: with nothing filtered out the sorted array is the dataset itself
applySortAliased(m) ==
  LET sorted == SortEntries(m.filtered, m.state.sortKey, IF m.state.sortDir = S_asc THEN 1 ELSE -1)
  IN [m EXCEPT !.filtered = sorted,
               !.allReviews = IF Len(m.filtered) = Len(m.allReviews) THEN sorted ELSE @]

applySort(m) ==
  [m EXCEPT !.filtered =
     SortEntries(m.filtered, m.state.sortKey, IF m.state.sortDir = S_asc THEN 1 ELSE -1)]

(* ------------------------------ rendering ------------------------------ *)

\* variant: Math.floor in place of Math.ceil
CeilDivFloor(count, perPage) == count \div perPage

\* Math.ceil(count / perPage) for a positive perPage
CeilDiv(count, perPage) == (count + perPage - 1) \div perPage

TotalPagesOf(count, perPage) == Max(1, CeilDiv(count, perPage))

render(m) ==
  LET s  == applySort(m)
      tp == TotalPagesOf(Len(s.filtered), s.state.perPage)
  IN [s EXCEPT !.totalPages = tp,
               !.state.page = IF s.state.page > tp THEN tp ELSE s.state.page]

update(m) == render(applyFilters(m))

\* variant: a start that counts pages from zero
StartOfNextPage(m) == m.state.page * m.state.perPage

\* what the last render put into the table body: start and pageItems
Start(m) == (m.state.page - 1) * m.state.perPage
PageItems(m) == Slice(m.filtered, Start(m), Start(m) + m.state.perPage)

\* data-idx of the rendered rows
RowIdxs(m) == {Start(m) + i : i \in 0..(Len(PageItems(m)) - 1)}

\* a render that marks every row up to the expanded index
ExpandedRowsUpTo(m) ==
  {idx \in RowIdxs(m) : m.state.expandedIdx # <<>> /\ idx <= m.state.expandedIdx[1]}

\* the rows render marks as expanded (each is followed by a detail row)
ExpandedRows(m) == {idx \in RowIdxs(m) : m.state.expandedIdx = <<idx>>}

\* variant: the window around the current page starts at page 1
PageListFromOne(p, tp) ==
  <<1>> \o (IF p > 3 THEN <<0>> ELSE <<>>)
        \o [i \in 1..Max(0, Min(tp - 1, p + 1) - Max(1, p - 1) + 1) |-> Max(1, p - 1) + i - 1]
        \o (IF p < tp - 2 THEN <<0>> ELSE <<>>)
        \o (IF tp > 1 THEN <<tp>> ELSE <<>>)

\* the pages array of renderPagination; 0 stands for the "..." item
PageList(p, tp) ==
  <<1>> \o (IF p > 3 THEN <<0>> ELSE <<>>)
        \o [i \in 1..Max(0, Min(tp - 1, p + 1) - Max(2, p - 1) + 1) |-> Max(2, p - 1) + i - 1]
        \o (IF p < tp - 2 THEN <<0>> ELSE <<>>)
        \o (IF tp > 1 THEN <<tp>> ELSE <<>>)

\* what renderPagination puts into the pagination control: nothing for a
\* single page, the pages array otherwise
PaginationItems(m) ==
  IF m.totalPages <= 1 THEN <<>> ELSE PageList(m.state.page, m.totalPages)

\* data-p of the enabled .page-btn buttons of the last render
PageButtons(m) ==
  IF m.totalPages <= 1 THEN {}
  ELSE LET p  == m.state.page
           pl == PageList(p, m.totalPages)
       IN {pl[i] : i \in {j \in 1..Len(pl) : pl[j] # 0}}
          \cup (IF p = 1 THEN {} ELSE {p - 1})
          \cup (IF p = m.totalPages THEN {} ELSE {p + 1})

\* data-p of all the .page-btn buttons of the last render, the disabled
\* previous and next buttons included
PageTargets(m) ==
  IF m.totalPages <= 1 THEN {}
  ELSE PageButtons(m) \cup {m.state.page - 1, m.state.page + 1}

(* --------------------------- URL persistence --------------------------- *)

\* assignment to the value of a number input: a string that is not a valid
\* number is replaced by the empty string
IsNumberString(s) ==
  LET body == IF Len(s) > 0 /\ s[1] = "-" THEN Tail(s) ELSE s
  IN Len(body) > 0 /\ \A i \in 1..Len(body) : IsDigit(body[i])
NumberInputValue(s) == IF IsNumberString(s) THEN s ELSE <<>>

\* assignment to the value of a select: a string that is no option selects nothing
SelectValue(options, s) == IF s \in options THEN s ELSE <<>>

\* a params.set that does not look at the value
ParamAlways(cond, name, value) == << <<name, value>> >>

Param(cond, name, value) == IF cond THEN << <<name, value>> >> ELSE <<>>

SyncParams(m) ==
     Param(Trim(m.els.globalSearch) # <<>>, K_q, Trim(m.els.globalSearch))
  \o Param(Trim(m.els.titleFilter) # <<>>, K_title, Trim(m.els.titleFilter))
  \o Param(Trim(m.els.authorFilter) # <<>>, K_author, Trim(m.els.authorFilter))
  \o Param(Trim(m.els.reviewerFilter) # <<>>, K_reviewer, Trim(m.els.reviewerFilter))
  \o Param(Len(m.selectedSubfields) > 0 /\ Len(m.selectedSubfields) < Len(m.allSubfields),
           K_subfield, Join(m.selectedSubfields, <<",">>))
  \o Param(Len(m.selectedJournals) > 0 /\ Len(m.selectedJournals) < Len(m.allJournals),
           K_journals, Join(m.selectedJournals, <<",">>))
  \o Param(m.els.yearFrom # <<>> \/ m.els.yearTo # <<>>,
           K_year, m.els.yearFrom \o <<"-">> \o m.els.yearTo)
  \o Param(m.els.accessFilter # <<>>, K_access, m.els.accessFilter)
  \o Param(m.els.typeFilter # <<>>, K_type, m.els.typeFilter)
  \o Param(~(m.state.sortKey = S_date /\ m.state.sortDir = S_desc),
           K_sort, m.state.sortKey \o <<"-">> \o m.state.sortDir)
  \o Param(m.state.page > 1, K_page, NumToStr(m.state.page))

syncToUrl(m) == [m EXCEPT !.hash = ParamsToString(SyncParams(m))]

\* the steps of readFromUrl on the parsed parameters
ReadText(m, params) ==
  [m EXCEPT !.els.globalSearch = IF ParamsHas(params, K_q) THEN ParamsGet(params, K_q) ELSE @,
            !.els.titleFilter = IF ParamsHas(params, K_title) THEN ParamsGet(params, K_title) ELSE @,
            !.els.authorFilter = IF ParamsHas(params, K_author) THEN ParamsGet(params, K_author) ELSE @,
            !.els.reviewerFilter = IF ParamsHas(params, K_reviewer) THEN ParamsGet(params, K_reviewer) ELSE @]

\* a restore of the facets that takes the names as they come
ReadFacetsUnchecked(m, params) ==
  [m EXCEPT !.selectedSubfields =
              IF ParamsHas(params, K_subfield)
              THEN NewSet(Split(ParamsGet(params, K_subfield), ","))
              ELSE @,
            !.selectedJournals =
              IF ParamsHas(params, K_journals)
              THEN NewSet(Split(ParamsGet(params, K_journals), ","))
              ELSE @]

ReadFacets(m, params) ==
  LET s == [m EXCEPT !.selectedSubfields =
                       IF ParamsHas(params, K_subfield)
                       THEN NewSet(SelectSeq(Split(ParamsGet(params, K_subfield), ","),
                                             LAMBDA c : Has(m.allSubfields, c)))
                       ELSE @,
                     !.selectedJournals =
                       IF ParamsHas(params, K_journals)
                       THEN NewSet(SelectSeq(Split(ParamsGet(params, K_journals), ","),
                                             LAMBDA n : Has(m.allJournals, n)))
                       ELSE @]
      a == IF ParamsHas(params, K_subfield) THEN updateSubfieldBtnLabel(s) ELSE s
  IN IF ParamsHas(params, K_journals) THEN updateJournalBtnLabel(a) ELSE a

ReadYear(m, params) ==
  IF ~ParamsHas(params, K_year) THEN m
  ELSE LET parts == Split(ParamsGet(params, K_year), "-")
       IN [m EXCEPT !.els.yearFrom = IF parts[1] # <<>> THEN NumberInputValue(parts[1]) ELSE @,
                    !.els.yearTo = IF Len(parts) >= 2 /\ parts[2] # <<>>
                                   THEN NumberInputValue(parts[2]) ELSE @]

ReadSelects(m, params) ==
  [m EXCEPT !.els.accessFilter = IF ParamsHas(params, K_access)
                                 THEN SelectValue(AccessOptions, ParamsGet(params, K_access)) ELSE @,
            !.els.typeFilter = IF ParamsHas(params, K_type)
                               THEN SelectValue(TypeOptions, ParamsGet(params, K_type)) ELSE @]

\* a restore of the sort that does not count the tokens
ReadSortAnyLength(m, params) ==
  IF ~ParamsHas(params, K_sort) THEN m
  ELSE LET sp == Split(ParamsGet(params, K_sort), "-")
       IN [m EXCEPT !.state.sortKey = sp[1],
                    !.state.sortDir = IF Len(sp) >= 2 THEN sp[2] ELSE @]

ReadSort(m, params) ==
  IF ~ParamsHas(params, K_sort) THEN m
  ELSE LET sp == Split(ParamsGet(params, K_sort), "-")
       IN IF Len(sp) = 2 THEN [m EXCEPT !.state.sortKey = sp[1], !.state.sortDir = sp[2]] ELSE m

ReadPage(m, params) ==
  IF ~ParamsHas(params, K_page) THEN m
  ELSE LET n == ParseInt(ParamsGet(params, K_page))
       IN [m EXCEPT !.state.page = IF Truthy(n) THEN n[1] ELSE 1]

readFromUrl(m) ==
  IF m.hash = <<>> THEN m
  ELSE LET params == URLSearchParams(m.hash)
       IN ReadPage(ReadSort(ReadSelects(ReadYear(ReadFacets(ReadText(m, params), params),
                                                 params), params), params), params)

(* -------------------------------- clear -------------------------------- *)

EmptyControls ==
  [globalSearch |-> <<>>, titleFilter |-> <<>>, authorFilter |-> <<>>, reviewerFilter |-> <<>>,
   yearFrom |-> <<>>, yearTo |-> <<>>, accessFilter |-> <<>>, typeFilter |-> <<>>]

\* variant: the journal selection is not reset
clearFiltersKeepJournals(m) ==
  update([m EXCEPT !.els = EmptyControls,
                   !.selectedSubfields = m.allSubfields,
                   !.state.page = 1,
                   !.state.expandedIdx = <<>>])

clearFilters(m) ==
  update(updateJournalBtnLabel(updateSubfieldBtnLabel(
    [m EXCEPT !.els = EmptyControls,
              !.selectedSubfields = m.allSubfields,
              !.selectedJournals = m.allJournals,
              !.state.page = 1,
              !.state.expandedIdx = <<>>])))

(* ------------------------------- inputs -------------------------------- *)

\* what the user types into the four debounced text inputs
TextFields == {"globalSearch", "titleFilter", "authorFilter", "reviewerFilter"}
TextInputs(field) ==
  IF field = "globalSearch" THEN {<<>>, I_hobbes, I_blank}
  ELSE IF field = "titleFilter" THEN {<<>>, I_padCive}
  ELSE IF field = "authorFilter" THEN {<<>>, I_kant}
  ELSE {<<>>, I_ann}

\* what the user enters into the year inputs and picks in the selects
ChangeFields == {"yearFrom", "yearTo", "accessFilter", "typeFilter"}
ChangeInputs(field) ==
  IF field \in {"yearFrom", "yearTo"} THEN {<<>>, I_0, I_2010, I_2011}
  ELSE IF field = "accessFilter" THEN AccessOptions
  ELSE TypeOptions

\* fragments of the URLs the page is opened with or navigated to
F_pageNeg == <<"p", "a", "g", "e", "=", "-", "3">>
F_page2 == <<"p", "a", "g", "e", "=", "2">>
F_journals == <<"j", "o", "u", "r", "n", "a", "l", "s", "=", "M", "i", "n", "d", ",", "R", "a", "t", "i", "o">>
F_sort == <<"s", "o", "r", "t", "=", "t", "i", "t", "l", "e", "-", "u", "p">>
F_year == <<"y", "e", "a", "r", "=", "2", "0", "1", "0", "-", "2", "0", "1", "1", "&", "p", "a", "g", "e", "=", "0">>
F_sortType == <<"s", "o", "r", "t", "=", "t", "y", "p", "e", "-", "a", "s", "c">>
F_unknownJ == <<"j", "o", "u", "r", "n", "a", "l", "s", "=", "R", "a", "t", "i", "o", "&", "s", "o", "r", "t", "=", "t", "i", "t", "l", "e">>
F_unknownS == <<"s", "u", "b", "f", "i", "e", "l", "d", "=", "x", "&", "s", "o", "r", "t", "=", "t", "i", "t", "l", "e", "-", "a", "s", "c", "-", "x">>
Fragments ==
  {<<>>, F_pageNeg, F_page2, F_journals, F_sort, F_year, F_sortType, F_unknownJ, F_unknownS}

\* number of view dimensions that are away from their defaults
B2N(b) == IF b THEN 1 ELSE 0
Active(m) ==
    B2N(m.els.globalSearch # <<>>) + B2N(m.els.titleFilter # <<>>)
  + B2N(m.els.authorFilter # <<>>) + B2N(m.els.reviewerFilter # <<>>)
  + B2N(m.els.yearFrom # <<>>) + B2N(m.els.yearTo # <<>>)
  + B2N(m.els.accessFilter # <<>>) + B2N(m.els.typeFilter # <<>>)
  + B2N(m.selectedJournals # m.allJournals) + B2N(m.selectedSubfields # m.allSubfields)
  + B2N(~(m.state.sortKey = S_date /\ m.state.sortDir = S_desc))
  + B2N(m.state.perPage # 25) + B2N(m.state.expandedIdx # <<>>)
Within(m) == Active(m) <= MaxActive

(* --------------------------- event handlers ---------------------------- *)

\* a clear-filters click that leaves the expansion alone
OnClearKeepExpanded(m) ==
  syncToUrl(update([clearFilters(m) EXCEPT !.state.expandedIdx = m.state.expandedIdx]))

\* #clear-filters click
OnClear(m) == syncToUrl(clearFilters(m))

\* a page-size change that also collapses the expanded row
OnPerPageCollapse(m, v) ==
  syncToUrl(render([m EXCEPT !.state.perPage = v, !.state.page = 1, !.state.expandedIdx = <<>>]))

\* #per-page change
OnPerPage(m, v) == syncToUrl(render([m EXCEPT !.state.perPage = v, !.state.page = 1]))

\* a debounced() that schedules without cancelling
OnInputNoCancel(m, field, v) == [m EXCEPT !.els[field] = v, !.timer = @ + 1]

\* input event of a text input: the value has changed, and debounced() cancels
\* the pending timeout, if there is one, and schedules a new one; timer is
\* the number of scheduled timeouts that have not run yet
OnInput(m, field, v) ==
  [m EXCEPT !.els[field] = v, !.timer = (IF @ > 0 THEN @ - 1 ELSE 0) + 1]

\* a timeout callback that renders without filtering
OnTimerNoFilter(m) == syncToUrl(render([m EXCEPT !.timer = @ - 1, !.state.page = 1]))

\* the timeout callback of debounced()
OnTimer(m) == syncToUrl(update([m EXCEPT !.timer = @ - 1, !.state.page = 1]))

\* a change handler that does not write the fragment
OnChangeNoSync(m, field, v) == update([m EXCEPT !.els[field] = v, !.state.page = 1])

\* change event of a year input or of the access / type select
OnChange(m, field, v) == syncToUrl(update([m EXCEPT !.els[field] = v, !.state.page = 1]))

\* a select-all that stays on the current page
OnSubfieldSelectAllKeepPage(m) ==
  syncToUrl(update([m EXCEPT !.selectedSubfields = m.allSubfields]))

\* subfield facet: select all, select none, checkbox change
OnSubfieldSelectAll(m) ==
  syncToUrl(update(updateSubfieldBtnLabel(
    [m EXCEPT !.selectedSubfields = m.allSubfields, !.state.page = 1])))
OnSubfieldSelectNone(m) ==
  syncToUrl(update(updateSubfieldBtnLabel(
    [m EXCEPT !.selectedSubfields = <<>>, !.state.page = 1])))
OnSubfieldToggle(m, v) ==
  syncToUrl(update(updateSubfieldBtnLabel(
    [m EXCEPT !.selectedSubfields = IF Has(@, v) THEN SetDelete(@, v) ELSE SetAdd(@, v),
              !.state.page = 1])))

\* journal facet: select all, select none, checkbox change
OnJournalSelectAll(m) ==
  syncToUrl(update(updateJournalBtnLabel(
    [m EXCEPT !.selectedJournals = m.allJournals, !.state.page = 1])))
OnJournalSelectNone(m) ==
  syncToUrl(update(updateJournalBtnLabel(
    [m EXCEPT !.selectedJournals = <<>>, !.state.page = 1])))
OnJournalToggle(m, v) ==
  syncToUrl(update(updateJournalBtnLabel(
    [m EXCEPT !.selectedJournals = IF Has(@, v) THEN SetDelete(@, v) ELSE SetAdd(@, v),
              !.state.page = 1])))

\* a header click that keeps the direction when the key changes
OnSortKeepDir(m, key) ==
  syncToUrl(render([m EXCEPT
    !.state.sortKey = key,
    !.state.sortDir = IF m.state.sortKey = key
                      THEN (IF m.state.sortDir = S_asc THEN S_desc ELSE S_asc)
                      ELSE m.state.sortDir,
    !.state.page = 1]))

\* click on a sortable header
OnSort(m, key) ==
  syncToUrl(render([m EXCEPT
    !.state.sortKey = key,
    !.state.sortDir = IF m.state.sortKey = key
                      THEN (IF m.state.sortDir = S_asc THEN S_desc ELSE S_asc)
                      ELSE (IF key = S_date THEN S_desc ELSE S_asc),
    !.state.page = 1]))

\* click on a source card
OnSourceCard(m, journal) ==
  syncToUrl(update(updateJournalBtnLabel(
    [clearFilters(m) EXCEPT !.selectedJournals = <<journal>>,
                            !.state.sortKey = S_date,
                            !.state.sortDir = S_desc,
                            !.state.page = 1])))

\* click on #browse-recent
OnBrowseRecent(m) ==
  syncToUrl(update([clearFilters(m) EXCEPT !.state.sortKey = S_date,
                                           !.state.sortDir = S_desc,
                                           !.state.page = 1]))

\* popstate: the browser has moved to the history entry with fragment h
OnPopState(m, h) == update(readFromUrl([m EXCEPT !.hash = h]))

\* a row click that writes the fragment as the other handlers do
OnRowClickSynced(m, idx) ==
  syncToUrl(render([m EXCEPT !.state.expandedIdx = IF @ = <<idx>> THEN <<>> ELSE <<idx>>]))

\* click on a rendered row
OnRowClick(m, idx) ==
  render([m EXCEPT !.state.expandedIdx = IF @ = <<idx>> THEN <<>> ELSE <<idx>>])

\* a name-link click that keeps the filters that are set
OnNameLinkKeepFilters(m, type, value) ==
  LET s == IF type = S_journal
           THEN updateJournalBtnLabel([m EXCEPT !.selectedJournals = <<value>>])
           ELSE [m EXCEPT !.els.globalSearch = value]
  IN syncToUrl(update([s EXCEPT !.state.sortKey = S_date,
                                !.state.sortDir = S_desc,
                                !.state.page = 1]))

\* click on a name link of a rendered row; value is the link's text
OnNameLink(m, type, value) ==
  LET c == clearFilters(m)
      s == IF type = S_journal
           THEN updateJournalBtnLabel([c EXCEPT !.selectedJournals = <<value>>])
           ELSE [c EXCEPT !.els.globalSearch = value]
  IN syncToUrl(update([s EXCEPT !.state.sortKey = S_date,
                                !.state.sortDir = S_desc,
                                !.state.page = 1]))

\* a pagination click that takes any target
OnPageBtnUnchecked(m, np) == syncToUrl(render([m EXCEPT !.state.page = np]))

\* click on a pagination button with data-p = np
OnPageBtn(m, np) ==
  IF np >= 1 /\ np <= m.totalPages
  THEN syncToUrl(render([m EXCEPT !.state.page = np]))
  ELSE m

\* DOMContentLoaded with the fragment h in the address bar
DefaultState == [page |-> 1, perPage |-> 25, sortKey |-> S_date, sortDir |-> S_desc,
                 expandedIdx |-> <<>>]

OnLoad(reviews, h) ==
  update(readFromUrl(
    [allReviews |-> reviews, filtered |-> <<>>, allJournals |-> BuildJournals(reviews),
     selectedJournals |-> BuildJournals(reviews), allSubfields |-> SubfieldCheckboxes,
     selectedSubfields |-> SubfieldCheckboxes, state |-> DefaultState, els |-> EmptyControls,
     timer |-> 0, hash |-> h, totalPages |-> 1,
     journalBtn |-> S_allJournals, subfieldBtn |-> S_allSubfields,
     filterIndicator |-> <<>>]))

(* ---------------------------- state machine ---------------------------- *)

Set(mx, op) ==
  \E m \in {mx} :
  /\ Within(m)
  /\ allReviews' = m.allReviews /\ filtered' = m.filtered
  /\ allJournals' = m.allJournals /\ selectedJournals' = m.selectedJournals
  /\ allSubfields' = m.allSubfields /\ selectedSubfields' = m.selectedSubfields
  /\ state' = m.state /\ els' = m.els /\ timer' = m.timer /\ hash' = m.hash
  /\ totalPages' = m.totalPages
  /\ journalBtn' = m.journalBtn /\ subfieldBtn' = m.subfieldBtn
  /\ filterIndicator' = m.filterIndicator
  /\ lastOp' = op

Init ==
  \E h \in Fragments :
    LET m == OnLoad(Dataset, h)
    IN /\ Within(m)
       /\ allReviews = m.allReviews /\ filtered = m.filtered
       /\ allJournals = m.allJournals /\ selectedJournals = m.selectedJournals
       /\ allSubfields = m.allSubfields /\ selectedSubfields = m.selectedSubfields
       /\ state = m.state /\ els = m.els /\ timer = m.timer /\ hash = m.hash
       /\ totalPages = m.totalPages
       /\ journalBtn = m.journalBtn /\ subfieldBtn = m.subfieldBtn
       /\ filterIndicator = m.filterIndicator
       /\ lastOp = "load"

ClearClick == Set(OnClear(Machine), "clear")
PerPageChange == \E v \in PerPageOptions \ {state.perPage} : Set(OnPerPage(Machine, v), "perPage")
TextInput ==
  \E field \in TextFields : \E v \in TextInputs(field) \ {els[field]} :
    Set(OnInput(Machine, field, v), "input")
TimerFire == timer > 0 /\ Set(OnTimer(Machine), "timer")
ControlChange ==
  \E field \in ChangeFields : \E v \in ChangeInputs(field) \ {els[field]} :
    Set(OnChange(Machine, field, v), "change")
SubfieldSelectAll == Set(OnSubfieldSelectAll(Machine), "subfieldAll")
SubfieldSelectNone == Set(OnSubfieldSelectNone(Machine), "subfieldNone")
SubfieldToggle ==
  \E i \in 1..Len(allSubfields) : Set(OnSubfieldToggle(Machine, allSubfields[i]), "subfieldToggle")
JournalSelectAll == Set(OnJournalSelectAll(Machine), "journalAll")
JournalSelectNone == Set(OnJournalSelectNone(Machine), "journalNone")
JournalToggle ==
  \E i \in 1..Len(allJournals) : Set(OnJournalToggle(Machine, allJournals[i]), "journalToggle")
SortClick == \E key \in SortHeaders : Set(OnSort(Machine, key), "sort")
SourceCardClick == \E j \in SourceCards : Set(OnSourceCard(Machine, j), "sourceCard")
BrowseRecentClick == Set(OnBrowseRecent(Machine), "browseRecent")
PopState == \E h \in Fragments : Set(OnPopState(Machine, h), "popstate")
RowClick == \E idx \in RowIdxs(Machine) : Set(OnRowClick(Machine, idx), "row")
NameLinkClick ==
  \E i \in 1..Len(PageItems(Machine)) : \E type \in {S_author, S_reviewer, S_journal} :
    /\ Field(PageItems(Machine)[i], type) # <<>>
    /\ Set(OnNameLink(Machine, type, Field(PageItems(Machine)[i], type)), "nameLink")
PageBtnClick == \E np \in PageButtons(Machine) : Set(OnPageBtn(Machine, np), "pageBtn")

Next ==
  \/ ClearClick \/ PerPageChange \/ TextInput \/ TimerFire \/ ControlChange
  \/ SubfieldSelectAll \/ SubfieldSelectNone \/ SubfieldToggle
  \/ JournalSelectAll \/ JournalSelectNone \/ JournalToggle
  \/ SortClick \/ SourceCardClick \/ BrowseRecentClick \/ PopState
  \/ RowClick \/ NameLinkClick \/ PageBtnClick

Spec == Init /\ [][Next]_vars

\* the steps of TimerFire, told by their effect: among the steps of Next they
\* are the ones that run a scheduled timeout, and one is possible exactly
\* when a timeout is scheduled
TimerRuns == timer > 0 /\ timer' = timer - 1 /\ lastOp' = "timer"

\* the pagination runs: the page is loaded with a dataset of some size and
\* the user changes the page size and clicks pagination buttons
PagerInit ==
  \E n \in (0..MaxEntries) \cup {ScenarioEntries} :
    LET m == OnLoad(Entries(n), <<>>)
    IN /\ allReviews = m.allReviews /\ filtered = m.filtered
       /\ allJournals = m.allJournals /\ selectedJournals = m.selectedJournals
       /\ allSubfields = m.allSubfields /\ selectedSubfields = m.selectedSubfields
       /\ state = m.state /\ els = m.els /\ timer = m.timer /\ hash = m.hash
       /\ totalPages = m.totalPages
       /\ journalBtn = m.journalBtn /\ subfieldBtn = m.subfieldBtn
       /\ filterIndicator = m.filterIndicator
       /\ lastOp = "load"

PagerNext == PerPageChange \/ PageBtnClick

PagerSpec == PagerInit /\ [][PagerNext]_vars

\* a scheduled timeout is run by the event loop: it cannot stay pending for ever
FairSpec == Spec /\ WF_<<timer, lastOp>>(TimerRuns)

(* ============================== properties ============================= *)

SetOf(seq) == {seq[i] : i \in 1..Len(seq)}

\* the entries applyFilters returns for the current controls and selections
Returned == SetOf(applyFilters(Machine).filtered)

\* C1: the filtered list contains only entries of the full dataset, each at
\* most once, and the full dataset (contents and order) is never changed by
\* filtering or sorting.
C1_FilteredSubsetOfDataset ==
  /\ \A i \in 1..Len(filtered) : \E j \in 1..Len(allReviews) : filtered[i] = allReviews[j]
  /\ \A i, j \in 1..Len(filtered) : i # j => filtered[i].id # filtered[j].id
  /\ allReviews = Dataset

\* a filter has removed an entry and the sort has put the rest in an order
\* that is not the dataset's
C1_Witness ==
  /\ Len(filtered) = 2
  /\ filtered[1].id > filtered[2].id

\* the view state obtained by decoding the encoding of the current state
\* into a freshly initialised page
Decoded ==
  readFromUrl([syncToUrl(Machine) EXCEPT !.els = EmptyControls,
                                         !.selectedJournals = allJournals,
                                         !.selectedSubfields = allSubfields,
                                         !.state = DefaultState])

\* C2: encoding the view state with syncToUrl and decoding the fragment with
\* readFromUrl into a default state reproduces the text filters, the year
\* range, access, type, the selected journals and subfields, the sort key,
\* the sort direction and the page.
C2_UrlRoundTrip ==
  /\ Trim(Decoded.els.globalSearch) = Trim(els.globalSearch)
  /\ Trim(Decoded.els.titleFilter) = Trim(els.titleFilter)
  /\ Trim(Decoded.els.authorFilter) = Trim(els.authorFilter)
  /\ Trim(Decoded.els.reviewerFilter) = Trim(els.reviewerFilter)
  /\ Decoded.els.yearFrom = els.yearFrom
  /\ Decoded.els.yearTo = els.yearTo
  /\ Decoded.els.accessFilter = els.accessFilter
  /\ Decoded.els.typeFilter = els.typeFilter
  /\ SetOf(Decoded.selectedJournals) = SetOf(selectedJournals)
  /\ SetOf(Decoded.selectedSubfields) = SetOf(selectedSubfields)
  /\ Decoded.state.sortKey = state.sortKey
  /\ Decoded.state.sortDir = state.sortDir
  /\ Decoded.state.page = state.page

\* C3: after every render the current page lies in
\* [1, max(1, ceil(filteredCount / pageSize))].
C3_PageInRange ==
  /\ state.page >= 1
  /\ state.page <= TotalPagesOf(Len(filtered), state.perPage)

\* C4: totalPages is max(1, ceil(c / s)) for the filtered count c and the
\* page size s (the least number of pages of size s that hold c entries, and
\* at least one), and the current page is not greater than totalPages.
C4_TotalPages ==
  /\ totalPages >= 1
  /\ totalPages * state.perPage >= Len(filtered)
  /\ totalPages > 1 => (totalPages - 1) * state.perPage < Len(filtered)
  /\ state.page <= totalPages

\* the last page of more than one
C4_Witness ==
  /\ totalPages > 1
  /\ state.page = totalPages
  /\ Len(filtered) % state.perPage # 0

\* C5: the clear-filters action ends in a state where the filtered count
\* equals the total count, the page is 1 and no row is expanded.
C5_ClearRestoresAll ==
  lastOp = "clear" =>
    /\ Len(filtered) = Len(allReviews)
    /\ state.page = 1
    /\ state.expandedIdx = <<>>

\* clear-filters has run while a text edit was still waiting for its timer
C5_Witness ==
  /\ lastOp = "clear"
  /\ timer > 0
  /\ Len(filtered) = Len(allReviews)

\* the predicates of the filter contract, on the current controls
YearOf(r) == ParseInt(Substring0(r.date, 4))
YearFromSet == els.yearFrom # <<>>
YearToSet == els.yearTo # <<>>
ContractBlob(r) ==
  r.title \o <<" ">> \o r.author \o <<" ">> \o r.reviewer \o <<" ">> \o r.journal
          \o <<" ">> \o r.date \o <<" ">> \o SUBFIELD_NAMES(r.subfield)
ContractText(value, text) ==
  Trim(value) = <<>> \/ Includes(ToLower(text), ToLower(Trim(value)))
ContractYear(r) ==
  /\ YearFromSet => (YearOf(r) # <<>> /\ YearOf(r)[1] >= ParseInt(els.yearFrom)[1])
  /\ YearToSet => (YearOf(r) # <<>> /\ YearOf(r)[1] <= ParseInt(els.yearTo)[1])
ContractSatisfied(r) ==
  /\ ContractText(els.globalSearch, ContractBlob(r))
  /\ ContractText(els.titleFilter, r.title)
  /\ ContractText(els.authorFilter, r.author)
  /\ ContractText(els.reviewerFilter, r.reviewer)
  /\ SetOf(selectedJournals) = SetOf(allJournals) \/ r.journal \in SetOf(selectedJournals)
  /\ \/ SetOf(selectedSubfields) = SetOf(allSubfields)
     \/ r.subfield \in SetOf(selectedSubfields)
     \/ r.subfield2 \in SetOf(selectedSubfields)
  /\ els.accessFilter = <<>> \/ ToLower(r.access) = ToLower(els.accessFilter)
  /\ els.typeFilter = <<>> \/ (IF r.type = <<>> THEN S_review ELSE r.type) = els.typeFilter
  /\ ContractYear(r)

\* C6: applyFilters returns exactly the dataset entries that satisfy the
\* conjunction of all active predicates (global search, title, author,
\* reviewer, journal, subfield, access, type, year range); an unset filter
\* excludes no entry.
C6_FilterIsConjunction ==
  Returned = {r \in SetOf(allReviews) : ContractSatisfied(r)}

\* C7: whenever yearFrom is set every returned entry has a year >= yearFrom,
\* whenever yearTo is set every returned entry has a year <= yearTo, and
\* whenever a bound is set entries whose year does not parse are excluded,
\* for every integer value of the bounds.
C7_YearRange ==
  \A r \in Returned : ContractYear(r)

\* C8: the selected-journal set is a subset of the distinct journals of the
\* dataset and the selected-subfield set is a subset of the full subfield set.
C8_SelectedWithinFull ==
  /\ SetOf(selectedJournals) \subseteq SetOf(allJournals)
  /\ SetOf(selectedSubfields) \subseteq SetOf(allSubfields)

\* an entry passes every predicate other than the journal / subfield facet
PassesBesidesJournal(m, r) ==
  /\ PassGlobal(m, r) /\ PassTitle(m, r) /\ PassAuthor(m, r) /\ PassReviewer(m, r)
  /\ PassSubfield(m, r) /\ PassAccess(m, r) /\ PassType(m, r) /\ PassYear(m, r)
PassesBesidesSubfield(m, r) ==
  /\ PassGlobal(m, r) /\ PassTitle(m, r) /\ PassAuthor(m, r) /\ PassReviewer(m, r)
  /\ PassJournal(m, r) /\ PassAccess(m, r) /\ PassType(m, r) /\ PassYear(m, r)

\* the facet removes an entry that every other predicate lets through
JournalFacetExcludes ==
  LET returned == Returned
  IN \E r \in SetOf(allReviews) : PassesBesidesJournal(Machine, r) /\ r \notin returned
SubfieldFacetExcludes ==
  LET returned == Returned
  IN \E r \in SetOf(allReviews) : PassesBesidesSubfield(Machine, r) /\ r \notin returned

\* C9: when the selected-journal (or selected-subfield) set is empty and the
\* dataset is not, the filtered list is empty; when the selected set equals
\* the full set, that facet excludes no entry.
C9_EmptyNothingFullAll ==
  /\ (selectedJournals = <<>> /\ allReviews # <<>>) => filtered = <<>>
  /\ (selectedSubfields = <<>> /\ allReviews # <<>>) => filtered = <<>>
  /\ SetOf(selectedJournals) = SetOf(allJournals) => ~JournalFacetExcludes
  /\ SetOf(selectedSubfields) = SetOf(allSubfields) => ~SubfieldFacetExcludes

\* no subfield is selected while every journal is: nothing is shown
C9_Witness ==
  /\ selectedSubfields = <<>>
  /\ selectedJournals = allJournals
  /\ allReviews # <<>>
  /\ filtered = <<>>
  /\ lastOp = "subfieldNone"

StrictNonEmptySubset(sel, all) ==
  /\ sel # <<>>
  /\ SetOf(sel) \subseteq SetOf(all)
  /\ SetOf(sel) # SetOf(all)

\* C10 (as claimed): a facet excludes entries only when its selected set is
\* a strict, non-empty subset of the full set; every other selected set,
\* the empty one included, removes no entry.
C10_OnlyStrictNonEmptyConstrains ==
  /\ JournalFacetExcludes => StrictNonEmptySubset(selectedJournals, allJournals)
  /\ SubfieldFacetExcludes => StrictNonEmptySubset(selectedSubfields, allSubfields)

\* C10 (amended): a facet excludes entries only when its selected set has
\* fewer members than the full set (the empty selection included); a
\* selection with as many members as the full set removes no entry.
C10_OnlySmallerSelectionConstrains ==
  /\ JournalFacetExcludes => Len(selectedJournals) < Len(allJournals)
  /\ SubfieldFacetExcludes => Len(selectedSubfields) < Len(allSubfields)

\* one journal of two is selected and the facet has removed an entry
C10_Witness ==
  /\ selectedJournals = <<D_Mind>>
  /\ JournalFacetExcludes
  /\ Len(filtered) = 2

\* every order in which the members of a sequence can be visited
Orders(seq) ==
  {o \in [1..Len(seq) -> SetOf(seq)] : \A i, j \in 1..Len(seq) : i # j => o[i] # o[j]}

\* the user checks one checkbox: a box that is already checked stays as it is
CheckJournal(m, v) == IF Has(m.selectedJournals, v) THEN m ELSE OnJournalToggle(m, v)
CheckSubfield(m, v) == IF Has(m.selectedSubfields, v) THEN m ELSE OnSubfieldToggle(m, v)

\* the user checks the boxes of a facet one at a time, in the given order
RECURSIVE CheckJournals(_, _)
CheckJournals(m, order) ==
  IF order = <<>> THEN m ELSE CheckJournals(CheckJournal(m, Head(order)), Tail(order))
RECURSIVE CheckSubfields(_, _)
CheckSubfields(m, order) ==
  IF order = <<>> THEN m ELSE CheckSubfields(CheckSubfield(m, Head(order)), Tail(order))

\* a checkbox of the facet is unchecked
JournalBoxUnchecked == \E i \in 1..Len(allJournals) : ~Has(selectedJournals, allJournals[i])
SubfieldBoxUnchecked == \E i \in 1..Len(allSubfields) : ~Has(selectedSubfields, allSubfields[i])

\* C11: from any selection that leaves a box to check, checking every journal
\* (or subfield) checkbox one at a time, in any order, gives the same selected
\* set and the same filtered list as the select-all action.
C11_CheckEachEqualsSelectAll ==
  /\ JournalBoxUnchecked =>
       \A o \in Orders(allJournals) :
         /\ SetOf(CheckJournals(Machine, o).selectedJournals)
              = SetOf(OnJournalSelectAll(Machine).selectedJournals)
         /\ CheckJournals(Machine, o).filtered = OnJournalSelectAll(Machine).filtered
  /\ SubfieldBoxUnchecked =>
       \A o \in Orders(allSubfields) :
         /\ SetOf(CheckSubfields(Machine, o).selectedSubfields)
              = SetOf(OnSubfieldSelectAll(Machine).selectedSubfields)
         /\ CheckSubfields(Machine, o).filtered = OnSubfieldSelectAll(Machine).filtered

\* the handlers that change a filter through the filter controls
ControlOps ==
  {"clear", "input", "timer", "change", "subfieldAll", "subfieldNone", "subfieldToggle",
   "journalAll", "journalNone", "journalToggle"}

\* the shortcuts: they clear the filters and set one of their own
ShortcutOps == {"sourceCard", "browseRecent", "nameLink"}

\* a header click: the same key flips between ascending and descending, a new
\* key starts descending for "date" and ascending otherwise
SortClickStep ==
  lastOp' = "sort" =>
    /\ state'.sortKey \in SortHeaders
    /\ state'.sortKey = state.sortKey =>
         /\ state'.sortDir \in {S_asc, S_desc}
         /\ (state'.sortDir = S_asc) # (state.sortDir = S_asc)
    /\ state'.sortKey # state.sortKey =>
         state'.sortDir = IF state'.sortKey = S_date THEN S_desc ELSE S_asc

SortUnchanged == state'.sortKey = state.sortKey /\ state'.sortDir = state.sortDir

\* C12 (as claimed): a header click on the current key flips the direction and
\* keeps the key, a click on another key sets it with direction descending
\* for "date" and ascending otherwise, and every filter change, the
\* shortcuts that set a filter included, leaves key and direction unchanged.
C12_SortClickAndFilterChanges ==
  [][/\ SortClickStep
     /\ lastOp' \in ControlOps \cup ShortcutOps => SortUnchanged]_vars

\* C12 (amended): as above for the header click; a filter change made
\* through the filter controls or clear-filters leaves key and direction
\* unchanged, and a shortcut sets the sort to date, descending.
C12_SortClickAndControlChanges ==
  [][/\ SortClickStep
     /\ lastOp' \in ControlOps => SortUnchanged
     /\ lastOp' \in ShortcutOps => state'.sortKey = S_date /\ state'.sortDir = S_desc]_vars

\* the title header has been clicked twice
C12_Witness ==
  /\ lastOp = "sort"
  /\ state.sortKey = S_title
  /\ state.sortDir = S_desc

\* the value applySort compares for an entry
SortValue(r, key) == ToLower(Field(r, key))

\* the entries of the filtered list all differ on the current sort key
NoTies ==
  \A i, j \in 1..Len(filtered) :
    i # j => SortValue(filtered[i], state.sortKey) # SortValue(filtered[j], state.sortKey)

\* the state after two clicks in a row on the header of the current sort key
ClickedTwice == OnSort(OnSort(Machine, state.sortKey), state.sortKey)

\* C13: for a filtered list whose entries all differ on the sort key, two
\* clicks in a row on the header of the current sort key bring back the
\* displayed order and the sort direction.
C13_TwoClicksRestore ==
  (state.sortKey \in SortHeaders /\ NoTies) =>
    /\ ClickedTwice.filtered = filtered
    /\ ClickedTwice.state.sortDir = state.sortDir

\* localeCompare of the sort values of two neighbours of the filtered list
Neighbours(i) ==
  LocaleCompare(SortValue(filtered[i], state.sortKey), SortValue(filtered[i + 1], state.sortKey))

\* C14: the filtered list is ordered by the case-folded string value of the
\* current sort key, a missing value counting as the empty string:
\* non-decreasing when the direction is ascending, non-increasing when it is
\* descending; under the default sort (date, descending) an entry dated
\* 2012-05-01 precedes one dated 2009-01-01.
C14_SortedByKey ==
  /\ state.sortDir = S_asc => \A i \in 1..(Len(filtered) - 1) : Neighbours(i) <= 0
  /\ state.sortDir = S_desc => \A i \in 1..(Len(filtered) - 1) : Neighbours(i) >= 0
  /\ (state.sortKey = S_date /\ state.sortDir = S_desc) =>
       \A i, j \in 1..Len(filtered) :
         (filtered[i].date = D_2012 /\ filtered[j].date = D_2009) => i < j

\* sorted upwards by type: the entry without a type comes first, as the
\* empty string does
C14_Witness ==
  /\ state.sortKey = K_type
  /\ state.sortDir = S_asc
  /\ Len(filtered) = 3
  /\ filtered[1].type = <<>>
  /\ filtered[3].type = S_symposium

\* C15: at most one row is rendered as expanded; a click on a row that is
\* not expanded makes it the only expanded row, whatever was expanded
\* before, and a click on the expanded row leaves no row expanded.
C15_SingleExpansion ==
  /\ Cardinality(ExpandedRows(Machine)) <= 1
  /\ \A idx \in RowIdxs(Machine) :
       ExpandedRows(OnRowClick(Machine, idx))
         = IF idx \in ExpandedRows(Machine) THEN {} ELSE {idx}

\* a row click has left the second row expanded
C15_Witness ==
  /\ lastOp = "row"
  /\ ExpandedRows(Machine) = {1}
  /\ Cardinality(RowIdxs(Machine)) = 3

\* the name links of the rendered rows, as pairs of data-type and text
NameLinks(m) ==
  {<<type, Field(PageItems(m)[i], type)>> :
     i \in 1..Len(PageItems(m)), type \in {S_author, S_reviewer, S_journal}}

NoRowExpanded(m) == m.state.expandedIdx = <<>> /\ ExpandedRows(m) = {}

\* C16: after the clear-filters action, after a name-link click and after a
\* source-card click no row is expanded, whatever was expanded before.
C16_ShortcutsCollapse ==
  /\ lastOp \in {"clear", "nameLink", "sourceCard"} => NoRowExpanded(Machine)
  /\ state.expandedIdx # <<>> =>
       /\ NoRowExpanded(OnClear(Machine))
       /\ \A l \in NameLinks(Machine) : NoRowExpanded(OnNameLink(Machine, l[1], l[2]))
       /\ \A j \in SourceCards : NoRowExpanded(OnSourceCard(Machine, j))

\* a source card has been clicked and its journal's rows are shown collapsed
C16_Witness ==
  /\ lastOp = "sourceCard"
  /\ selectedJournals = <<D_Mind>>
  /\ Len(filtered) = 2
  /\ NoRowExpanded(Machine)

\* the fragment that encodes the view state of m
Encoding(m) == ParamsToString(SyncParams(m))

\* the handlers of the mutating interactions other than the row click and
\* the pagination click
SyncedOps ==
  {"clear", "perPage", "timer", "change", "subfieldAll", "subfieldNone", "subfieldToggle",
   "journalAll", "journalNone", "journalToggle", "sort"} \cup ShortcutOps

\* C17: when the handler of a mutating interaction other than the row click
\* has completed (clear, page size, year / access / type, facet select-all /
\* select-none / checkbox, sort header, source card, browse-recent, name
\* link, a pagination click that changes the page, the fired debounce
\* timer), the URL fragment is the encoding of the current view state.
C17_FragmentSynced ==
  /\ lastOp \in SyncedOps => hash = Encoding(Machine)
  /\ \A np \in PageButtons(Machine) :
       (np >= 1 /\ np <= totalPages) =>
         OnPageBtn(Machine, np).hash = Encoding(OnPageBtn(Machine, np))

\* the debounce timer has fired and the search text is in the fragment
C17_Witness ==
  /\ lastOp = "timer"
  /\ els.globalSearch = I_hobbes
  /\ hash = K_q \o <<"=">> \o I_hobbes
  /\ Len(filtered) = 1

\* C18: a row click changes the expanded index and nothing else: the URL
\* fragment, the filter values, the selected facet sets, the sort key and
\* direction, the page, the page size and the membership of the filtered
\* list stay as they were.
C18_RowClickFrame ==
  \A idx \in RowIdxs(Machine) :
    LET after == OnRowClick(Machine, idx)
    IN /\ after.state.expandedIdx # state.expandedIdx
       /\ after.hash = hash
       /\ after.els = els
       /\ after.selectedJournals = selectedJournals
       /\ after.selectedSubfields = selectedSubfields
       /\ after.state.sortKey = state.sortKey
       /\ after.state.sortDir = state.sortDir
       /\ after.state.page = state.page
       /\ after.state.perPage = state.perPage
       /\ SetOf(after.filtered) = SetOf(filtered)

\* the third row has been expanded and the address bar is as it was
C18_Witness ==
  /\ lastOp = "row"
  /\ state.expandedIdx = <<2>>
  /\ hash = <<>>
  /\ Len(filtered) = 3

\* the keys of the fragment syncToUrl writes for m
WrittenKeys(m) ==
  LET params == URLSearchParams(Encoding(m))
  IN {k \in {K_q, K_title, K_author, K_reviewer, K_subfield, K_journals, K_year, K_access,
             K_type, K_sort, K_page} : ParamsHas(params, k)}

\* every field the fragment encodes is at its default
AllDefault(m) ==
  /\ \A f \in TextFields : Trim(m.els[f]) = <<>>
  /\ \A f \in ChangeFields : m.els[f] = <<>>
  /\ SetOf(m.selectedJournals) = SetOf(m.allJournals)
  /\ SetOf(m.selectedSubfields) = SetOf(m.allSubfields)
  /\ m.state.sortKey = S_date /\ m.state.sortDir = S_desc
  /\ m.state.page = 1

\* a field at its default has no key in the fragment written for m
DefaultsOmitted(m) ==
  LET written == WrittenKeys(m)
  IN /\ Trim(m.els.globalSearch) = <<>> => K_q \notin written
     /\ Trim(m.els.titleFilter) = <<>> => K_title \notin written
     /\ Trim(m.els.authorFilter) = <<>> => K_author \notin written
     /\ Trim(m.els.reviewerFilter) = <<>> => K_reviewer \notin written
     /\ SetOf(m.selectedJournals) = SetOf(m.allJournals) => K_journals \notin written
     /\ SetOf(m.selectedSubfields) = SetOf(m.allSubfields) => K_subfield \notin written
     /\ (m.els.yearFrom = <<>> /\ m.els.yearTo = <<>>) => K_year \notin written
     /\ m.els.accessFilter = <<>> => K_access \notin written
     /\ m.els.typeFilter = <<>> => K_type \notin written
     /\ (m.state.sortKey = S_date /\ m.state.sortDir = S_desc) => K_sort \notin written
     /\ m.state.page = 1 => K_page \notin written
     /\ AllDefault(m) => Encoding(m) = <<>>

\* C19: syncToUrl writes no key for a field at its default: no q / title /
\* author / reviewer key for an empty or whitespace-only text filter, no
\* journals / subfield key for a full facet selection, no sort key for date
\* descending, no page key for page 1, and no fragment at all when every
\* field is at its default; a text that looks like a parameter adds no key.
C19_DefaultsOmitted ==
  /\ DefaultsOmitted(Machine)
  /\ (lastOp \in SyncedOps /\ AllDefault(Machine)) => hash = <<>>
  /\ DefaultsOmitted([Machine EXCEPT !.els.authorFilter = I_ampPage,
                                     !.els.reviewerFilter = I_blank])

\* a search text of blanks only has been applied: the URL has no fragment
C19_Witness ==
  /\ lastOp = "timer"
  /\ els.globalSearch = I_blank
  /\ AllDefault(Machine)
  /\ hash = <<>>

\* the fields of an entry that hold a string
EntryFields ==
  {S_title, S_author, S_reviewer, S_journal, S_date, K_access, K_type, K_subfield}

\* the page parameter of a fragment is a page number: digits, at least 1
ValidPageParam(params) ==
  /\ ParamsHas(params, K_page)
  /\ ParamsGet(params, K_page) # <<>>
  /\ \A i \in 1..Len(ParamsGet(params, K_page)) : IsDigit(ParamsGet(params, K_page)[i])
  /\ ParseInt(ParamsGet(params, K_page))[1] >= 1

\* the view state readFromUrl leaves when it decodes h into a fresh page
FreshDecode(h) ==
  readFromUrl([Machine EXCEPT !.hash = h, !.els = EmptyControls,
                              !.selectedJournals = allJournals,
                              !.selectedSubfields = allSubfields,
                              !.state = DefaultState])

\* C20: after readFromUrl has decoded a fragment the sort key is an entry
\* field and the sort direction is asc or desc (a sort value with another
\* key or direction is ignored), and a page value that is not a page number
\* leaves the page at 1.
C20_DecodedSortAndPage ==
  \A h \in Fragments :
    /\ FreshDecode(h).state.sortKey \in EntryFields
    /\ FreshDecode(h).state.sortDir \in {S_asc, S_desc}
    /\ ~ValidPageParam(URLSearchParams(h)) => FreshDecode(h).state.page = 1

\* the names a fragment gives for a facet key
FacetNames(h, key) == SetOf(Split(ParamsGet(URLSearchParams(h), key), ","))

\* the fragment has the facet key and names no value of the facet's full set
OnlyUnknownNames(h, key, all) ==
  /\ ParamsHas(URLSearchParams(h), key)
  /\ FacetNames(h, key) \cap SetOf(all) = {}

\* the facet of m removes an entry that every other predicate lets through
JournalExcludesIn(m) ==
  \E r \in SetOf(m.allReviews) :
    PassesBesidesJournal(m, r) /\ r \notin SetOf(applyFilters(m).filtered)
SubfieldExcludesIn(m) ==
  \E r \in SetOf(m.allReviews) :
    PassesBesidesSubfield(m, r) /\ r \notin SetOf(applyFilters(m).filtered)

\* C21: loading a fragment whose journals (or subfield) value names only
\* values that are not in the dataset leaves that facet at the full
\* selection: the facet excludes no entry.
C21_UnknownFacetNotApplied ==
  \A h \in Fragments :
    /\ OnlyUnknownNames(h, K_journals, allJournals) =>
         /\ SetOf(OnLoad(allReviews, h).selectedJournals) = SetOf(allJournals)
         /\ ~JournalExcludesIn(OnLoad(allReviews, h))
    /\ OnlyUnknownNames(h, K_subfield, allSubfields) =>
         /\ SetOf(OnLoad(allReviews, h).selectedSubfields) = SetOf(allSubfields)
         /\ ~SubfieldExcludesIn(OnLoad(allReviews, h))

\* the state readFromUrl leaves when the fragment h is decoded into the
\* current state
DecodeInto(h) == readFromUrl([Machine EXCEPT !.hash = h])

\* the fragments with a journals key, with a subfield key
JournalFragments == {h \in Fragments : ParamsHas(URLSearchParams(h), K_journals)}
SubfieldFragments == {h \in Fragments : ParamsHas(URLSearchParams(h), K_subfield)}

\* C22: after readFromUrl has decoded a fragment with a journals or subfield
\* key, the restored selected set holds only values of the full journal /
\* subfield set (and only names of the fragment): unknown names are dropped.
C22_RestoredWithinFull ==
  /\ \A h \in JournalFragments :
       LET restored == SetOf(DecodeInto(h).selectedJournals)
       IN restored \subseteq SetOf(allJournals) /\ restored \subseteq FacetNames(h, K_journals)
  /\ \A h \in SubfieldFragments :
       LET restored == SetOf(DecodeInto(h).selectedSubfields)
       IN restored \subseteq SetOf(allSubfields) /\ restored \subseteq FacetNames(h, K_subfield)

\* the page was opened with journals=Mind,Ratio: Mind alone is selected
C22_Witness ==
  /\ lastOp = "load"
  /\ hash = F_journals
  /\ selectedJournals = <<D_Mind>>
  /\ Len(filtered) = 2

\* the tokens of the sort value of a fragment
SortTokens(h) == Split(ParamsGet(URLSearchParams(h), K_sort), "-")

\* the fragments whose sort value does not split into exactly two tokens
MalformedSortFragments ==
  {h \in Fragments : ParamsHas(URLSearchParams(h), K_sort) /\ Len(SortTokens(h)) # 2}

\* C23: when the sort value of a fragment does not split on '-' into
\* exactly two tokens, readFromUrl leaves the sort key and the sort
\* direction as they were.
C23_MalformedSortIgnored ==
  \A h \in MalformedSortFragments :
    LET decoded == DecodeInto(h)
    IN /\ decoded.state.sortKey = state.sortKey
       /\ decoded.state.sortDir = state.sortDir

\* the page was opened with a sort value of three tokens: the default sort
\* is in force
C23_Witness ==
  /\ lastOp = "load"
  /\ hash = F_unknownS
  /\ Len(SortTokens(hash)) = 3
  /\ state.sortKey = S_date
  /\ state.sortDir = S_desc

\* two states agree on the filter values, the selected sets, the sort and
\* the page
SameView(a, b) ==
  /\ a.els = b.els
  /\ SetOf(a.selectedJournals) = SetOf(b.selectedJournals)
  /\ SetOf(a.selectedSubfields) = SetOf(b.selectedSubfields)
  /\ a.state.sortKey = b.state.sortKey
  /\ a.state.sortDir = b.state.sortDir
  /\ a.state.page = b.state.page

\* C24: after a popstate event the filter values, the selected facet sets,
\* the sort and the page are those a fresh page load of the same URL
\* produces, so every field whose key is absent from the fragment is at
\* its default.
C24_PopStateIsReload ==
  \A h \in Fragments : SameView(OnPopState(Machine, h), OnLoad(allReviews, h))

\* the keystrokes that can follow the state m: a text field and a new value
Keystrokes(m) ==
  UNION {{<<f, v>> : v \in TextInputs(f) \ {m.els[f]}} : f \in TextFields}

\* a timeout that fires in the state b uses the input values of b and
\* leaves nothing pending
OneCycle(b) ==
  LET fired == OnTimer(b)
  IN /\ b.timer = 1
     /\ fired.timer = 0
     /\ fired.els = b.els
     /\ SetOf(fired.filtered) = SetOf(applyFilters(b).filtered)
     /\ fired.hash = Encoding(fired)

\* C25: at most one debounced update is pending at any time across the four
\* text inputs; a keystroke, the first of a burst or one that arrives while
\* a timeout is pending, leaves one pending timeout, which causes one
\* filter / render / URL-sync cycle on the input values present when it
\* fires, and no timeout is pending after it.
C25_OnePendingUpdate ==
  /\ timer \in {0, 1}
  /\ \A k \in Keystrokes(Machine) : OnInput(Machine, k[1], k[2]).timer = 1
  /\ timer = 1 => OneCycle(Machine)
  /\ lastOp = "timer" => SetOf(filtered) = Returned

\* a keystroke in the title filter is waiting for its timeout: the list is
\* not filtered yet
C25_Witness ==
  /\ lastOp = "input"
  /\ timer = 1
  /\ els.titleFilter = I_padCive
  /\ Len(filtered) = 3

\* C26: after a keystroke in a text input the scheduled update eventually
\* fires, and then the filtered list is the filter applied to the current
\* input values and the page is 1.
C26_DebounceFires ==
  (timer > 0) ~> (/\ lastOp = "timer"
                  /\ timer = 0
                  /\ SetOf(filtered) = Returned
                  /\ state.page = 1)

\* the timeout of a keystroke in the author filter has fired
C26_Witness ==
  /\ lastOp = "timer"
  /\ timer = 0
  /\ els.authorFilter = I_kant
  /\ Len(filtered) = 1
  /\ state.page = 1

\* the page numbers of the pagination control, in the order shown
ShownPages(m) == SelectSeq(PaginationItems(m), LAMBDA x : x # 0)

\* the positions of the ellipses in the pagination control
Ellipses(m) == {i \in 1..Len(PaginationItems(m)) : PaginationItems(m)[i] = 0}

\* the control shows page 1, the last page, the pages around the current one
\* that lie strictly between them and nothing else, in increasing order,
\* with at most one ellipsis on either side of the window
WindowShown(m) ==
  LET p  == m.state.page
      tp == m.totalPages
      sh == ShownPages(m)
  IN /\ SetOf(sh) = {1, tp} \cup ({p - 1, p, p + 1} \cap (2..(tp - 1)))
     /\ \A i \in 1..(Len(sh) - 1) : sh[i] < sh[i + 1]
     /\ Ellipses(m) \subseteq {2, Len(PaginationItems(m)) - 1}
     /\ \A i \in Ellipses(m) : i + 1 \notin Ellipses(m)
     /\ (2 \in Ellipses(m)) => p > 3
     /\ (Len(PaginationItems(m)) - 1 \in Ellipses(m) /\ p <= 3) => p < tp - 2

InPageRange(m) == m.totalPages >= 1 /\ m.state.page \in 1..m.totalPages

\* C27 (as claimed): for every totalPages >= 1 and every page in
\* [1, totalPages] the pagination control shows page 1, the last page when
\* it is not page 1, the pages of [p-1, p+1] within [2, totalPages-1], at
\* most one ellipsis before and one after them, and no other page, the page
\* numbers increasing.
C27_WindowForEveryPageCount ==
  InPageRange(Machine) => WindowShown(Machine)

\* C27 (amended): the same for every totalPages >= 2; with a single page the
\* pagination control is empty.
C27_WindowFromTwoPages ==
  /\ (InPageRange(Machine) /\ totalPages >= 2) => WindowShown(Machine)
  /\ totalPages = 1 => PaginationItems(Machine) = <<>>

\* page 5 of 8: 1, an ellipsis, 4 5 6, an ellipsis, 8
C27_Witness ==
  /\ totalPages = 8
  /\ state.page = 5
  /\ PaginationItems(Machine) = <<1, 0, 4, 5, 6, 0, 8>>
  /\ lastOp = "pageBtn"

\* the view of page p of the current filtered list
PageAt(p) == [Machine EXCEPT !.state.page = p]

\* the indices the claim gives to page p
SliceOf(p) == ((p - 1) * state.perPage)..(Min(p * state.perPage, Len(filtered)) - 1)

\* C28: page p of 1..totalPages shows exactly the entries at indices
\* (p-1)*s .. min(p*s, c)-1 of the sorted filtered list, every filtered
\* entry is on exactly one page, and 50 entries with page size 25 give two
\* pages showing 0..24 and 25..49.
C28_PagesPartition ==
  /\ \A p \in 1..totalPages :
       /\ RowIdxs(PageAt(p)) = SliceOf(p)
       /\ \A i \in 1..Len(PageItems(PageAt(p))) :
            PageItems(PageAt(p))[i] = filtered[(p - 1) * state.perPage + i]
  /\ \A k \in 0..(Len(filtered) - 1) :
       Cardinality({p \in 1..totalPages : k \in RowIdxs(PageAt(p))}) = 1
  /\ state.page \in 1..totalPages => RowIdxs(Machine) = SliceOf(state.page)
  /\ (state.perPage = 25 /\ Len(filtered) = 50) =>
       /\ totalPages = 2
       /\ RowIdxs(PageAt(1)) = 0..24
       /\ RowIdxs(PageAt(2)) = 25..49

\* the second page of 50 entries in pages of 25
C28_Witness ==
  /\ state.perPage = 25
  /\ Len(filtered) = 50
  /\ state.page = 2
  /\ lastOp = "pageBtn"
  /\ RowIdxs(Machine) = 25..49

\* the interactions that go back to the first page
PageResetOps ==
  {"perPage", "timer", "change", "subfieldAll", "subfieldNone", "subfieldToggle",
   "journalAll", "journalNone", "journalToggle", "clear", "sort"} \cup ShortcutOps

\* P holds of every state the handlers of these interactions lead to from
\* machine m
PageResetResults(m, P(_)) ==
  /\ \A v \in PerPageOptions : P(OnPerPage(m, v))
  /\ P(OnTimer(m)) /\ P(OnClear(m)) /\ P(OnBrowseRecent(m))
  /\ \A f \in ChangeFields : \A v \in ChangeInputs(f) : P(OnChange(m, f, v))
  /\ P(OnSubfieldSelectAll(m)) /\ P(OnSubfieldSelectNone(m))
  /\ \A i \in 1..Len(m.allSubfields) : P(OnSubfieldToggle(m, m.allSubfields[i]))
  /\ P(OnJournalSelectAll(m)) /\ P(OnJournalSelectNone(m))
  /\ \A i \in 1..Len(m.allJournals) : P(OnJournalToggle(m, m.allJournals[i]))
  /\ \A key \in SortHeaders : P(OnSort(m, key))
  /\ \A j \in SourceCards : P(OnSourceCard(m, j))
  /\ \A i \in 1..Len(PageItems(m)) : \A type \in {S_author, S_reviewer, S_journal} :
       P(OnNameLink(m, type, Field(PageItems(m)[i], type)))

\* C29: after a page-size change, a fired text update, a year / access /
\* type change, a facet select-all / select-none / checkbox change, a clear,
\* a shortcut or a sort-header click the current page is 1, whatever the
\* page was before.
C29_BackToFirstPage ==
  /\ lastOp \in PageResetOps => state.page = 1
  /\ state.page # 1 => PageResetResults(Machine, LAMBDA r : r.state.page = 1)

\* a clear-filters click on a list of two pages
C29_Witness ==
  /\ lastOp = "clear"
  /\ totalPages = 2
  /\ state.page = 1

\* the label the claim gives to a selection sel of a facet with the values
\* all; name(v) is the text shown for the value v
ClaimedLabel(sel, all, allLabel, noneLabel, name(_)) ==
  IF SetOf(sel) = SetOf(all) THEN allLabel
  ELSE IF Len(sel) = 0 THEN noneLabel
  ELSE IF Len(sel) = 1 THEN name(sel[1])
  ELSE IF Len(sel) = 2 THEN name(sel[1]) \o S_commaSpace \o name(sel[2])
  ELSE name(sel[1]) \o S_plus \o NumToStr(Len(sel) - 1) \o S_more

JournalLabelClaimed ==
  journalBtn = ClaimedLabel(selectedJournals, allJournals, S_allJournals, S_noJournals,
                            LAMBDA v : v)

SubfieldLabelClaimed ==
  subfieldBtn = ClaimedLabel(selectedSubfields, allSubfields, S_allSubfields, S_noSubfields,
                             SubfieldName)

\* the interactions that assign the selection of both facets, of the journal
\* facet, of the subfield facet
ResetOps == {"clear", "browseRecent", "sourceCard", "nameLink"}
JournalSelectionOps == {"journalAll", "journalNone", "journalToggle"} \cup ResetOps
SubfieldSelectionOps == {"subfieldAll", "subfieldNone", "subfieldToggle"} \cup ResetOps

\* the fragment read by the last load or history move names the facet
RestoredFromUrl(key) ==
  /\ lastOp \in {"load", "popstate"}
  /\ hash # <<>>
  /\ ParamsHas(URLSearchParams(hash), key)

\* C30: after every action that changes a facet selection the facet button
\* reads "All X" when the selected set is the full set, "No X selected" when
\* it is empty, the value when one is selected, the two values joined by a
\* comma when two are selected, and otherwise the first value followed by
\* "+N more" with N = size - 1 (a subfield is shown by its display name).
C30_LabelFollowsSelection ==
  /\ (lastOp \in JournalSelectionOps \/ RestoredFromUrl(K_journals)) => JournalLabelClaimed
  /\ (lastOp \in SubfieldSelectionOps \/ RestoredFromUrl(K_subfield)) => SubfieldLabelClaimed

\* P holds of every state the filter, sort, page and page-size handlers
\* lead to from machine m (the clear button and the shortcuts are not among
\* them)
KeepExpansionResults(m, P(_)) ==
  /\ \A v \in PerPageOptions : P(OnPerPage(m, v))
  /\ P(OnTimer(m))
  /\ \A f \in TextFields : \A v \in TextInputs(f) : P(OnInput(m, f, v))
  /\ \A f \in ChangeFields : \A v \in ChangeInputs(f) : P(OnChange(m, f, v))
  /\ P(OnSubfieldSelectAll(m)) /\ P(OnSubfieldSelectNone(m))
  /\ \A i \in 1..Len(m.allSubfields) : P(OnSubfieldToggle(m, m.allSubfields[i]))
  /\ P(OnJournalSelectAll(m)) /\ P(OnJournalSelectNone(m))
  /\ \A i \in 1..Len(m.allJournals) : P(OnJournalToggle(m, m.allJournals[i]))
  /\ \A key \in SortHeaders : P(OnSort(m, key))
  /\ \A np \in PageButtons(m) : P(OnPageBtn(m, np))
  /\ \A h \in Fragments : P(OnPopState(m, h))

\* the expanded rows of r are the rows of the current page whose index is idx
ExpandedAt(r, idx) ==
  /\ r.state.expandedIdx = <<idx>>
  /\ ExpandedRows(r) = {idx} \cap RowIdxs(r)
  /\ (idx >= Len(r.filtered) \/ idx < Start(r) \/ idx >= Start(r) + r.state.perPage)
       => ExpandedRows(r) = {}

\* C31: a filter, sort, page or page-size change other than clear and the
\* shortcuts leaves the expanded index as it was; the row rendered as
\* expanded afterwards is the one at that index on the current page, and no
\* row is expanded when the index is outside the page or the filtered list.
C31_ExpansionIsAbsoluteIndex ==
  state.expandedIdx # <<>> =>
    /\ ExpandedAt(Machine, state.expandedIdx[1])
    /\ KeepExpansionResults(Machine, LAMBDA r : ExpandedAt(r, state.expandedIdx[1]))

\* the second row is expanded; a filter change can leave another entry at
\* its index, and another can leave the index outside the list
C31_Witness ==
  /\ lastOp = "row"
  /\ state.expandedIdx = <<1>>
  /\ ~KeepExpansionResults(Machine, LAMBDA r : ~(/\ ExpandedRows(r) = {1}
                                                  /\ r.filtered[2] # filtered[2]))
  /\ ~KeepExpansionResults(Machine, LAMBDA r : ExpandedRows(r) # {})

\* C32: whenever an event handler has completed (the keystroke handler,
\* which only schedules the update, aside), the displayed list is the filter
\* applied to the current control values, and the fragment a handler has
\* written encodes the filter values that produced the displayed list, also
\* when a sort-header click, pagination click, page-size change or row click
\* comes while a debounced text update is pending.
C32_ListMatchesControls ==
  /\ lastOp # "input" => SetOf(filtered) = Returned
  /\ lastOp \in SyncedOps => (hash = Encoding(Machine) /\ SetOf(filtered) = Returned)

\* a timeout that runs right after a pagination click keeps the page
PageKeptByTimer ==
  (lastOp = "pageBtn" /\ lastOp' = "timer") => state'.page = state.page

\* C33: a page chosen by a pagination click stays the current page until
\* the next user interaction: the callback of a timeout that an earlier
\* keystroke has scheduled does not change it.
C33_PageKeptUntilInteraction == [][PageKeptByTimer]_vars

\* the list in the order in which a filter change derives it from the
\* dataset for the current filter values, sort key and direction
Rederived == update(Machine).filtered

\* C34: the displayed order is a function of the dataset and the view state:
\* a history that ends with these filter values, sort key and direction
\* displays the filtered entries in the order in which any other does, the
\* one that derives the list from the dataset anew included, also where
\* entries tie on the sort key.
C34_OrderFunctionOfView ==
  SetOf(filtered) = Returned => filtered = Rederived

\* the journals selected are some, not all, of the dataset's journals
StrictJournalSubset ==
  /\ selectedJournals # <<>>
  /\ SetOf(selectedJournals) \subseteq SetOf(allJournals)
  /\ SetOf(selectedJournals) # SetOf(allJournals)

\* C35: for every non-empty strict subset S of the dataset's journals,
\* whatever characters the names contain (a comma included), encoding S with
\* syncToUrl and decoding the fragment with readFromUrl restores the selected
\* journals to exactly S.
C35_JournalsRoundTrip ==
  StrictJournalSubset =>
    SetOf(FreshDecode(Encoding(Machine)).selectedJournals) = SetOf(selectedJournals)

\* what the claim says of the state r that the click on the type link of
\* the displayed entry e leads to
NameLinkShows(r, e, type) ==
  /\ e \in SetOf(r.filtered)
  /\ r.els = IF type = S_journal THEN EmptyControls
             ELSE [EmptyControls EXCEPT !.globalSearch = Field(e, type)]
  /\ r.selectedJournals = IF type = S_journal THEN <<e.journal>> ELSE r.allJournals
  /\ r.selectedSubfields = r.allSubfields
  /\ r.state.sortKey = S_date
  /\ r.state.sortDir = S_desc
  /\ r.state.page = 1

\* C36: after a name-link click on the author, reviewer or journal of a
\* displayed entry the entry is in the filtered list, every filter other
\* than the one the shortcut sets (the global query for author and reviewer,
\* the single selected journal for journal) is at its default, the sort is
\* date, descending, and the page is 1.
C36_NameLinkShowsEntry ==
  \A i \in 1..Len(PageItems(Machine)) : \A type \in {S_author, S_reviewer, S_journal} :
    LET e == PageItems(Machine)[i]
    IN Field(e, type) # <<>> =>
         NameLinkShows(OnNameLink(Machine, type, Field(e, type)), e, type)

\* the reviewer link of the second entry has been clicked
C36_Witness ==
  /\ lastOp = "nameLink"
  /\ els.globalSearch = D_Bo
  /\ filtered = <<Entry2>>
  /\ NameLinkShows(Machine, Entry2, S_reviewer)

\* a click on the button with data-p = np: a disabled button gets no event
ClickPageBtn(m, np) == IF np \in PageButtons(m) THEN OnPageBtn(m, np) ELSE m

\* C37: a click on a pagination button (numbered, previous or next) changes
\* the page only when its target lies in [1, totalPages]; previous on page 1
\* and next on the last page leave the page, the display and the URL as they
\* are; no pagination click changes the filters, the sort or the membership
\* of the filtered list.
C37_PaginationClickFrame ==
  \A np \in PageTargets(Machine) :
    LET r == ClickPageBtn(Machine, np)
    IN /\ r.state.page # state.page => (np >= 1 /\ np <= totalPages)
       /\ (np < 1 \/ np > totalPages) => r = Machine
       /\ (state.page = 1 /\ np = 0) => r = Machine
       /\ (state.page = totalPages /\ np = totalPages + 1) => r = Machine
       /\ r.els = els
       /\ r.selectedJournals = selectedJournals
       /\ r.selectedSubfields = selectedSubfields
       /\ r.state.sortKey = state.sortKey
       /\ r.state.sortDir = state.sortDir
       /\ SetOf(r.filtered) = SetOf(filtered)

\* page 2 of 2 has been chosen; the next button leads nowhere
C37_Witness ==
  /\ lastOp = "pageBtn"
  /\ state.page = 2
  /\ totalPages = 2
  /\ 3 \in PageTargets(Machine)
  /\ ClickPageBtn(Machine, 3) = Machine
  /\ ClickPageBtn(Machine, 1).state.page = 1

\* the interactions whose handler runs update()
UpdateOps ==
  {"load", "popstate", "timer", "change", "clear", "subfieldAll", "subfieldNone",
   "subfieldToggle", "journalAll", "journalNone", "journalToggle"} \cup ShortcutOps

\* the predicates applyFilters evaluates against the entries, by the names
\* the indicator gives them
InForce(m) ==
  {n \in {"search", "title", "author", "reviewer", "subfield", "journals", "year",
          "access", "type"} :
     \/ n = "search" /\ FilterG(m) # <<>>
     \/ n = "title" /\ FilterFt(m) # <<>>
     \/ n = "author" /\ FilterFa(m) # <<>>
     \/ n = "reviewer" /\ FilterFr(m) # <<>>
     \/ n = "subfield" /\ FilterBySubfield(m)
     \/ n = "journals" /\ FilterByJournal(m)
     \/ n = "year" /\ (Truthy(FilterFy1(m)) \/ Truthy(FilterFy2(m)))
     \/ n = "access" /\ FilterFac(m) # <<>>
     \/ n = "type" /\ FilterFtype(m) # <<>>}

\* the indicator text for n counted filters
IndicatorText(n) ==
  IF n = 0 THEN <<>>
  ELSE NumToStr(n) \o S_filterWord \o (IF n > 1 THEN <<"s">> ELSE <<>>) \o S_activeWord

\* C38: after every update the indicator text is empty if and only if no
\* predicate of applyFilters is in force (the filtered list is then the full
\* dataset), and each of search, title, author, reviewer, subfield, journals,
\* year, access and type is counted if and only if its predicate is
\* evaluated against the entries.
C38_IndicatorCountsAppliedFilters ==
  lastOp \in UpdateOps =>
    /\ filterIndicator = <<>> <=> InForce(Machine) = {}
    /\ InForce(Machine) = {} => SetOf(filtered) = SetOf(allReviews)
    /\ SetOf(ActiveFilters(Machine)) = InForce(Machine)
    /\ filterIndicator = IndicatorText(Cardinality(InForce(Machine)))

====
